---- MODULE Spec2Model ----
(***************************************************************************)
(* A model of the Expo push notification client: push token parsing,      *)
(* message serialization, the gzip policy, and PushNotifier's chunked      *)
(* dispatch (send_push_notifications / send_push_notification).            *)
(*                                                                         *)
(* Strings are TLA+ strings; Len, \o and SubSeq act on them as on byte     *)
(* sequences (every model string is ASCII, one byte per character).        *)
(***************************************************************************)
EXTENDS Integers, Sequences, FiniteSets, TLC

VARIABLES
    notifier,     \* the shared PushNotifier: url, pushes_per_request, gzip_policy
    kind,         \* per call: which entry point was called
    messages,     \* per call: the messages argument
    pc,           \* per call: position in the code
    iter,         \* per call: the Chunks iterator (the remaining slice)
    responses,    \* per call: the local `responses` vector
    result,       \* per call: what the call returned (or how it ended)
    wire,         \* requests sent whose response has not been received
    requests,     \* per call: log of the requests it has issued
    answers,      \* per call: log of the transport outcomes it has received
    tokenInput,   \* the string handed to the token parser
    tokenParsed,  \* what the token parser returned
    detailsInput,   \* two raw `details` payloads handed to the decoder
    detailsDecoded, \* what the decoder returned for each of them
    built,        \* the PushMessage a caller is building
    lastSet,      \* the builder method called last
    everSet       \* the optional fields the caller has set

vars == <<notifier, kind, messages, pc, iter, responses, result, wire,
          requests, answers, tokenInput, tokenParsed, detailsInput,
          detailsDecoded, built, lastSet, everSet>>

callVars == <<notifier, kind, messages, pc, iter, responses, result, wire,
              requests, answers>>

tokenVars == <<tokenInput, tokenParsed>>

decodeVars == <<detailsInput, detailsDecoded>>

builderVars == <<built, lastSet, everSet>>

\* what the send methods never touch
pureVars == <<tokenVars, decodeVars, builderVars>>

(***************************************************************************)
(* Bounds of the model.                                                    *)
(***************************************************************************)
MaxMessages == 3
MaxPushesPerRequest == 3
MaxConcurrentMessages == 2
MaxTokenBody == 2

(***************************************************************************)
(* Option<T>: None is the empty tuple, Some(v) the one-element tuple.      *)
(***************************************************************************)
None == <<>>
Some(v) == <<v>>

\* n copies of "x" (input material for message bodies)
RECURSIVE Xs(_)
Xs(n) ==
    IF n <= 0 THEN ""
    ELSE IF n % 2 = 1 THEN "x" \o Xs(n - 1)
    ELSE LET h == Xs(n \div 2) IN h \o h

RECURSIVE Flatten(_)
Flatten(ss) == IF ss = <<>> THEN <<>> ELSE Head(ss) \o Flatten(Tail(ss))

(***************************************************************************)
(* str::starts_with / str::ends_with                                       *)
(***************************************************************************)
starts_with(s, p) == Len(s) >= Len(p) /\ SubSeq(s, 1, Len(p)) = p
ends_with(s, p) == Len(s) >= Len(p) /\ SubSeq(s, Len(s) - Len(p) + 1, Len(s)) = p

(***************************************************************************)
(* PushToken parsing.                                                      *)
(***************************************************************************)
\* the text of from_str's error before the input (its backquotes left out)
FromStrErrorText ==
    "A PushToken must be of the format ExpoPushToken[xxx] or ExponentPushToken[xxx]. Was given: "

\* a parser that forgets the closing bracket
token_format_unclosed(s) ==
    starts_with(s, "ExponentPushToken[") \/ starts_with(s, "ExpoPushToken[")

\* the test both parsers apply
token_format_ok(s) ==
    (starts_with(s, "ExponentPushToken[") \/ starts_with(s, "ExpoPushToken["))
        /\ ends_with(s, "]")

\* impl FromStr for PushToken (lib.rs)
from_str(s) ==
    IF token_format_ok(s)
    THEN [ok |-> TRUE, token |-> s, err |-> ""]
    ELSE [ok |-> FALSE, token |-> "", err |-> FromStrErrorText \o s]

\* impl TryFrom<String> for PushToken (message.rs); the error holds the input
try_from(s) ==
    IF token_format_ok(s)
    THEN [ok |-> TRUE, token |-> s, err |-> ""]
    ELSE [ok |-> FALSE, token |-> "", err |-> s]

(***************************************************************************)
(* Error details (response.rs).  A details payload is a JSON object: its   *)
(* "error" and "expoPushToken" members, each absent or a string, and the   *)
(* text of whatever other members it has.                                  *)
(***************************************************************************)
\* impl Deserialize for PushToken: a string, then try_from
PushToken_deserialize(member) ==
    IF member = None THEN [ok |-> FALSE, token |-> "", err |-> "missing field expoPushToken"]
    ELSE try_from(member[1])

\* the variants of PushReceiptErrorDetails that have a name of their own
FieldlessCauses == {"InvalidCredentials", "MessageTooBig", "MessageRateExceeded"}

DetailsOk(variant, token) ==
    [ok |-> TRUE, variant |-> variant, expo_push_token |-> token, err |-> ""]

DetailsErr(e) ==
    [ok |-> FALSE, variant |-> "", expo_push_token |-> None, err |-> e]

\* #[derive(Deserialize)] #[serde(tag = "error")] enum PushReceiptErrorDetails:
\* the tag is read first and picks the variant, #[serde(other)] takes every
\* tag that names no variant, and members a variant does not declare are
\* ignored; UnknownError is a unit variant
PushReceiptErrorDetails_deserialize(p) ==
    IF p.error = None THEN DetailsErr("missing field error")
    ELSE IF p.error[1] = "DeviceNotRegistered"
    THEN LET t == PushToken_deserialize(p.expoPushToken)
         IN IF t.ok THEN DetailsOk("DeviceNotRegistered", Some(t.token))
            ELSE DetailsErr(t.err)
    ELSE IF p.error[1] \in FieldlessCauses THEN DetailsOk(p.error[1], None)
    ELSE DetailsOk("UnknownError", None)

(***************************************************************************)
(* PushMessage and its serialization (serde derive: fields in declaration  *)
(* order, an Option that is None is skipped).                              *)
(***************************************************************************)
PushMessage_new(push_token) ==
    [to |-> push_token, data |-> None, title |-> None, body |-> None,
     sound |-> None, ttl |-> None, expiration |-> None, priority |-> None,
     badge |-> None]

PushMessage_data(m, d) == [m EXCEPT !.data = Some(d)]

PushMessage_title(m, t) == [m EXCEPT !.title = Some(t)]

PushMessage_body(m, b) == [m EXCEPT !.body = Some(b)]

PushMessage_sound(m, sd) == [m EXCEPT !.sound = Some(sd)]

PushMessage_ttl(m, t) == [m EXCEPT !.ttl = Some(t)]

PushMessage_expiration(m, e) == [m EXCEPT !.expiration = Some(e)]

PushMessage_priority(m, pr) == [m EXCEPT !.priority = Some(pr)]

PushMessage_badge(m, b) == [m EXCEPT !.badge = Some(b)]

Digit(d) == SubSeq("0123456789", d + 1, d + 1)

RECURSIVE ToDecimal(_)
ToDecimal(n) == IF n < 10 THEN Digit(n) ELSE ToDecimal(n \div 10) \o Digit(n % 10)

\* a JSON string literal; model strings hold no character that needs an escape
JsonString(s) == "\"" \o s \o "\""

\* an optional string or number, rendered when present
OptString(opt) == [i \in 1..Len(opt) |-> JsonString(opt[i])]

OptNumber(opt) == [i \in 1..Len(opt) |-> ToDecimal(opt[i])]

\* a field that is emitted as null when None
OptField_null(key, rendered) ==
    IF rendered = None THEN << <<key, "null">> >> ELSE << <<key, rendered[1]>> >>

\* a field that is skipped when None, else one <<key, rendered value>> pair
OptField(key, rendered) ==
    IF rendered = None THEN <<>> ELSE << <<key, rendered[1]>> >>

\* the key/value pairs serde emits for one message, in order (data holds a
\* JSON value, which is emitted as it is)
MessageFields(m) ==
    << <<"to", JsonString(m.to)>> >>
        \o OptField("data", m.data)
        \o OptField("title", OptString(m.title))
        \o OptField("body", OptString(m.body))
        \o OptField("sound", OptString(m.sound))
        \o OptField("ttl", OptNumber(m.ttl))
        \o OptField("expiration", OptNumber(m.expiration))
        \o OptField("priority", OptString(m.priority))
        \o OptField("badge", OptNumber(m.badge))

RECURSIVE JoinComma(_)
JoinComma(parts) ==
    IF parts = <<>> THEN ""
    ELSE IF Len(parts) = 1 THEN parts[1]
    ELSE parts[1] \o "," \o JoinComma(Tail(parts))

SerializeMessage(m) ==
    LET fs == MessageFields(m)
    IN "{" \o JoinComma([i \in 1..Len(fs) |-> JsonString(fs[i][1]) \o ":" \o fs[i][2]]) \o "}"

\* serde_json::to_string(&messages)
to_string(msgs) ==
    "[" \o JoinComma([i \in 1..Len(msgs) |-> SerializeMessage(msgs[i])]) \o "]"

(***************************************************************************)
(* PushNotifier construction.                                              *)
(***************************************************************************)
DefaultPushesPerRequest == 100
GzipThreshold == 1024

GzipPolicies == {"ZipGreaterThan1024Bytes", "Never", "Always"}

GzipPolicy_default == "ZipGreaterThan1024Bytes"

PushNotifier_new ==
    [url |-> "https://exp.host/--/api/v2/push/send",
     pushes_per_request |-> DefaultPushesPerRequest,
     gzip_policy |-> GzipPolicy_default]

with_pushes_per_request(self, n) == [self EXCEPT !.pushes_per_request = n]

gzip_policy(self, p) == [self EXCEPT !.gzip_policy = p]

(***************************************************************************)
(* send_push_notifications_chunk, up to the request being sent.            *)
(***************************************************************************)
\* a policy match whose threshold test is off by one
should_compress_inclusive(policy, body) ==
    CASE policy = "Always" -> TRUE
      [] policy = "Never" -> FALSE
      [] policy = "ZipGreaterThan1024Bytes" -> Len(body) >= GzipThreshold

\* the match on self.gzip_policy
should_compress(policy, body) ==
    CASE policy = "Always" -> TRUE
      [] policy = "Never" -> FALSE
      [] policy = "ZipGreaterThan1024Bytes" -> Len(body) > GzipThreshold

\* Write::write on the encoder reports how many bytes it took; the code does
\* not look at the count, so the stream holds that prefix of the body.
EncoderWriteCounts(body) == {Len(body), Len(body) \div 2}

\* gzip_request: the outcomes of encoder.write(..)? and encoder.finish()?
gzip_request(body) ==
    {[ok |-> TRUE, gunzipped |-> SubSeq(body, 1, n)] : n \in EncoderWriteCounts(body)}
        \cup {[ok |-> FALSE, gunzipped |-> ""]}

BaseHeaders ==
    {<<"Accept", "application/json">>,
     <<"Accept-Encoding", "gzip, deflate">>,
     <<"Content-Type", "application/json">>}

\* request_async up to construct_body's send(): the requests it may put on
\* the wire, or the i/o error of gzip_request
request_async(url, body, compress) ==
    IF compress
    THEN {IF g.ok
          THEN [ok |-> TRUE,
                request |-> [url |-> url,
                             headers |-> BaseHeaders \cup {<<"Content-Encoding", "gzip">>},
                             body |-> [gzip |-> TRUE, bytes |-> g.gunzipped]]]
          ELSE [ok |-> FALSE,
                request |-> [url |-> url, headers |-> {},
                             body |-> [gzip |-> TRUE, bytes |-> ""]]]
          : g \in gzip_request(body)}
    ELSE {[ok |-> TRUE,
           request |-> [url |-> url, headers |-> BaseHeaders,
                        body |-> [gzip |-> FALSE, bytes |-> body]]]}

(***************************************************************************)
(* The transport and the server.                                           *)
(***************************************************************************)
Statuses == {"ok", "error"}

\* the server's ticket for message m with delivery status st (`for` records
\* which message the server made the ticket for)
ServerTicket(m, st) ==
    [status |-> st,
     message |-> IF st = "error" THEN Some("rejected") ELSE None,
     details |-> None,
     for |-> m.to]

StrayTicket ==
    [status |-> "ok", message |-> None, details |-> None, for |-> "nobody"]

HonestData(chunk, sts) == [i \in 1..Len(chunk) |-> ServerTicket(chunk[i], sts[i])]

AllOk(chunk) == HonestData(chunk, [i \in 1..Len(chunk) |-> "ok"])

\* a status the client does not know
UnknownStatus == "queued"

\* the data arrays a server may answer with: one ticket per message in
\* order, or an array that is too short, too long or empty, or one whose
\* last element has a status that is neither "ok" nor "error"
DataArrays(chunk) ==
    {HonestData(chunk, sts) : sts \in [1..Len(chunk) -> Statuses]}
        \cup {SubSeq(AllOk(chunk), 1, Len(chunk) - 1),
              Append(AllOk(chunk), StrayTicket),
              <<>>,
              HonestData(chunk, [i \in 1..Len(chunk) |->
                                    IF i = Len(chunk) THEN UnknownStatus ELSE "ok"])}

\* what may come back for a request: no connection, an error status, a
\* redirection status that is not followed, or a success status, with a body
\* that is or is not the expected JSON
TransportOutcomes(chunk) ==
    {[connected |-> FALSE, status |-> 0, decodable |-> FALSE, data |-> <<>>],
     [connected |-> TRUE, status |-> 500, decodable |-> FALSE, data |-> <<>>],
     [connected |-> TRUE, status |-> 404, decodable |-> TRUE, data |-> AllOk(chunk)],
     [connected |-> TRUE, status |-> 304, decodable |-> TRUE, data |-> AllOk(chunk)],
     [connected |-> TRUE, status |-> 200, decodable |-> FALSE, data |-> <<>>]}
        \cup {[connected |-> TRUE, status |-> 200, decodable |-> TRUE, data |-> d]
              : d \in DataArrays(chunk)}

\* a decoder that takes a per-message error for a failure of the request
receive_strict(a) ==
    IF ~a.connected THEN [ok |-> FALSE, error |-> "connect", data |-> <<>>]
    ELSE IF a.status >= 400 /\ a.status < 600
         THEN [ok |-> FALSE, error |-> "status", data |-> <<>>]
    ELSE IF ~a.decodable \/ \E i \in DOMAIN a.data : a.data[i].status = "error"
         THEN [ok |-> FALSE, error |-> "decode", data |-> <<>>]
    ELSE [ok |-> TRUE, error |-> "", data |-> a.data]

\* construct_body from send()? on, then res.json()?: PushReceipt holds its
\* status as a String, so an element decodes whatever its status says
receive(a) ==
    IF ~a.connected THEN [ok |-> FALSE, error |-> "connect", data |-> <<>>]
    ELSE IF a.status >= 400 /\ a.status < 600
         THEN [ok |-> FALSE, error |-> "status", data |-> <<>>]
    ELSE IF ~a.decodable THEN [ok |-> FALSE, error |-> "decode", data |-> <<>>]
    ELSE [ok |-> TRUE, error |-> "", data |-> a.data]

(***************************************************************************)
(* Results of a call.                                                      *)
(***************************************************************************)
NoTicket == None

Pending == [tag |-> "Pending", tickets |-> <<>>, ticket |-> NoTicket, error |-> ""]
Ok(tickets) == [tag |-> "Ok", tickets |-> tickets, ticket |-> NoTicket, error |-> ""]
OkOne(t) == [tag |-> "Ok", tickets |-> <<>>, ticket |-> Some(t), error |-> ""]
Err(e) == [tag |-> "Err", tickets |-> <<>>, ticket |-> NoTicket, error |-> e]
Panic(e) == [tag |-> "Panic", tickets |-> <<>>, ticket |-> NoTicket, error |-> e]

Calls == DOMAIN pc

(***************************************************************************)
(* slice::chunks                                                           *)
(***************************************************************************)
\* a chunk iterator that drops a short remainder into the chunk before it
ChunkLen_merging(rest, size) == IF Len(rest) <= size + 1 THEN Len(rest) ELSE size

\* Chunks::next: the length of the next chunk of a non-empty remainder
ChunkLen(rest, size) == IF Len(rest) < size THEN Len(rest) ELSE size

(***************************************************************************)
(* Steps of send_push_notifications.                                       *)
(***************************************************************************)
\* an append that puts the new tickets in front
append_front(resps, c, data) == [resps EXCEPT ![c] = data \o @]

\* an append to one buffer that all calls on the notifier share
append_shared(resps, c, data) == [x \in DOMAIN resps |-> resps[x] \o data]

\* responses.append(&mut response) in call c
append(resps, c, data) == [resps EXCEPT ![c] = @ \o data]

\* a loop that skips a failed chunk and goes on
chunk_failed_continue(c, e) ==
    /\ result' = result
    /\ pc' = [pc EXCEPT ![c] = IF kind[c] = "send_push_notifications" THEN "loop" ELSE "done"]

\* the `?` on a failed chunk: the call returns Err(e) at once
chunk_failed(c, e) ==
    /\ result' = [result EXCEPT ![c] = Err(e)]
    /\ pc' = [pc EXCEPT ![c] = "done"]

\* the requests of call c that wait for their response
InFlight(c) == {w \in wire : w.call = c}

(***************************************************************************)
(* Actions.                                                                *)
(***************************************************************************)
\* send_push_notification_chunk from its start to the request being sent
Dispatch(c, chunk) ==
    LET body == to_string(chunk)
        compress == should_compress(notifier.gzip_policy, body)
    IN \E o \in request_async(notifier.url, body, compress) :
           IF o.ok
           THEN /\ wire' = wire \cup {[call |-> c, request |-> o.request, chunk |-> chunk]}
                /\ requests' = [requests EXCEPT ![c] =
                                    Append(@, [request |-> o.request, chunk |-> chunk])]
                /\ pc' = [pc EXCEPT ![c] = "awaiting"]
                /\ result' = result
           ELSE /\ chunk_failed(c, "io")
                /\ UNCHANGED <<wire, requests>>

\* send_push_notifications: messages.chunks(self.pushes_per_request)
CallSendMany(c) ==
    /\ pc[c] = "called"
    /\ kind[c] = "send_push_notifications"
    /\ IF notifier.pushes_per_request = 0
       THEN /\ pc' = [pc EXCEPT ![c] = "done"]
            /\ result' = [result EXCEPT ![c] = Panic("chunk size must be non-zero")]
            /\ UNCHANGED iter
       ELSE /\ pc' = [pc EXCEPT ![c] = "loop"]
            /\ iter' = [iter EXCEPT ![c] = messages[c]]
            /\ UNCHANGED result
    /\ UNCHANGED <<notifier, kind, messages, responses, wire, requests, answers, pureVars>>

\* one turn of `for chunk in iter`: the next chunk is taken and sent
NextChunk(c) ==
    /\ pc[c] = "loop"
    /\ iter[c] # <<>>
    /\ LET n == ChunkLen(iter[c], notifier.pushes_per_request)
       IN /\ iter' = [iter EXCEPT ![c] = SubSeq(@, n + 1, Len(@))]
          /\ Dispatch(c, SubSeq(iter[c], 1, n))
    /\ UNCHANGED <<notifier, kind, messages, responses, answers, pureVars>>

\* the iterator is exhausted: Ok(responses)
ReturnOk(c) ==
    /\ pc[c] = "loop"
    /\ iter[c] = <<>>
    /\ pc' = [pc EXCEPT ![c] = "done"]
    /\ result' = [result EXCEPT ![c] = Ok(responses[c])]
    /\ UNCHANGED <<notifier, kind, messages, iter, responses, wire, requests, answers,
                   pureVars>>

\* send_push_notification: the one-message chunk is sent
CallSendOne(c) ==
    /\ pc[c] = "called"
    /\ kind[c] = "send_push_notification"
    /\ Dispatch(c, <<messages[c][1]>>)
    /\ UNCHANGED <<notifier, kind, messages, iter, responses, answers, pureVars>>

\* the blocked request returns: send()?.error_for_status()?, res.json()?,
\* then the caller's `?`, append or pop().unwrap()
Response(c) ==
    /\ pc[c] = "awaiting"
    /\ \E w \in InFlight(c) :
       \E a \in TransportOutcomes(w.chunk) :
           LET r == receive(a)
           IN /\ wire' = wire \ {w}
              /\ answers' = [answers EXCEPT ![c] = Append(@, a)]
              /\ IF ~r.ok
                 THEN /\ chunk_failed(c, r.error)
                      /\ UNCHANGED responses
                 ELSE IF kind[c] = "send_push_notifications"
                 THEN /\ responses' = append(responses, c, r.data)
                      /\ pc' = [pc EXCEPT ![c] = "loop"]
                      /\ UNCHANGED result
                 ELSE /\ result' = [result EXCEPT ![c] =
                                        IF r.data = <<>>
                                        THEN Panic("called Option::unwrap() on a None value")
                                        ELSE OkOne(r.data[Len(r.data)])]
                      /\ pc' = [pc EXCEPT ![c] = "done"]
                      /\ UNCHANGED responses
    /\ UNCHANGED <<notifier, kind, messages, iter, requests, pureVars>>

ParseFromStr ==
    /\ tokenParsed = None
    /\ tokenParsed' = Some([by |-> "from_str"] @@ from_str(tokenInput))
    /\ UNCHANGED <<tokenInput, callVars, decodeVars, builderVars>>

ParseTryFrom ==
    /\ tokenParsed = None
    /\ tokenParsed' = Some([by |-> "try_from"] @@ try_from(tokenInput))
    /\ UNCHANGED <<tokenInput, callVars, decodeVars, builderVars>>

(***************************************************************************)
(* Initial states.                                                         *)
(***************************************************************************)
\* the notifiers a caller can build
Notifiers ==
    {gzip_policy(with_pushes_per_request(PushNotifier_new, k), p)
        : k \in (0..MaxPushesPerRequest) \cup {DefaultPushesPerRequest},
          p \in GzipPolicies}

\* the notifiers of the concurrent runs: any chunk size with the default
\* policy, or any policy with the default chunk size
ConcurrentNotifiers ==
    {with_pushes_per_request(PushNotifier_new, k) : k \in 0..MaxConcurrentMessages}
        \cup {gzip_policy(PushNotifier_new, p) : p \in GzipPolicies}

\* message number j: its token is parsed from text
Message(j) == PushMessage_new(from_str("ExpoPushToken[" \o ToDecimal(j) \o "]").token)

\* body texts that bring a one-message request body to just below, exactly
\* at and just above the gzip threshold
BoundaryBodies ==
    LET base == Len(to_string(<<PushMessage_body(Message(1), "")>>))
    IN {Xs(GzipThreshold - base + d) : d \in {-1, 0, 1}}

\* message lists of length n starting at message number first + 1; the first
\* message has no body or one of the given bodies
MessageLists(n, first, bodies) ==
    LET plain == [i \in 1..n |-> Message(first + i)]
    IN {plain} \cup
       (IF n = 0 THEN {}
        ELSE {[plain EXCEPT ![1] = PushMessage_body(@, b)] : b \in bodies})

CallsInit(ks, ms) ==
    /\ kind = ks
    /\ messages = ms
    /\ pc = [c \in DOMAIN ks |-> "called"]
    /\ iter = [c \in DOMAIN ks |-> <<>>]
    /\ responses = [c \in DOMAIN ks |-> <<>>]
    /\ result = [c \in DOMAIN ks |-> Pending]
    /\ requests = [c \in DOMAIN ks |-> <<>>]
    /\ answers = [c \in DOMAIN ks |-> <<>>]
    /\ wire = {}

NoTokenInit ==
    /\ tokenInput = ""
    /\ tokenParsed = None

NoDecodeInit ==
    /\ detailsInput = <<>>
    /\ detailsDecoded = <<>>

NoBuilderInit ==
    /\ built = None
    /\ lastSet = "none"
    /\ everSet = {}

\* what one call can be given
CallInputs(maxLen, first, bodies) ==
    {<<"send_push_notifications", ms>> :
        ms \in UNION {MessageLists(n, first, bodies) : n \in 0..maxLen}}
    \cup {<<"send_push_notification", ms>> : ms \in MessageLists(1, first, bodies)}

\* one call on a notifier
Init ==
    /\ notifier \in Notifiers
    /\ \E in \in CallInputs(MaxMessages, 0, BoundaryBodies) :
           CallsInit(<<in[1]>>, <<in[2]>>)
    /\ NoTokenInit
    /\ NoDecodeInit
    /\ NoBuilderInit

\* two calls on one shared notifier, running concurrently; the second is given
\* the same messages as the first could be given, or messages of its own
InitConcurrent ==
    /\ notifier \in ConcurrentNotifiers
    /\ \E in1 \in CallInputs(MaxConcurrentMessages, 0, {}) :
       \E first \in {0, MaxConcurrentMessages} :
       \E in2 \in CallInputs(MaxConcurrentMessages, first, {}) :
           CallsInit(<<in1[1], in2[1]>>, <<in1[2], in2[2]>>)
    /\ NoTokenInit
    /\ NoDecodeInit
    /\ NoBuilderInit

Next ==
    \/ \E c \in Calls : CallSendMany(c)
    \/ \E c \in Calls : NextChunk(c)
    \/ \E c \in Calls : ReturnOk(c)
    \/ \E c \in Calls : CallSendOne(c)
    \/ \E c \in Calls : Response(c)

Spec == Init /\ [][Next]_vars

SpecConcurrent == InitConcurrent /\ [][Next]_vars

(***************************************************************************)
(* The token parser on its own.                                            *)
(***************************************************************************)
TokenAlphabet == {"a", "[", "]"}

RECURSIVE StringsUpTo(_)
StringsUpTo(n) ==
    IF n = 0 THEN {""}
    ELSE LET shorter == StringsUpTo(n - 1)
         IN shorter \cup {s \o a : s \in shorter, a \in TokenAlphabet}

TokenInputs ==
    {h \o m \o t :
        h \in {"", "ExponentPushToken[", "ExpoPushToken[", "ExponentPushToken",
               "ExpoPushToken", "expoPushToken[", "xExpoPushToken["},
        m \in StringsUpTo(MaxTokenBody),
        t \in {"", "]"}}

InitToken ==
    /\ tokenInput \in TokenInputs
    /\ tokenParsed = None
    /\ notifier = PushNotifier_new
    /\ CallsInit(<<>>, <<>>)
    /\ NoDecodeInit
    /\ NoBuilderInit

NextToken == ParseFromStr \/ ParseTryFrom

SpecToken == InitToken /\ [][NextToken]_vars

(***************************************************************************)
(* Decoding error details: two payloads, decoded one after the other.      *)
(***************************************************************************)
DecodeDetails ==
    /\ Len(detailsDecoded) < Len(detailsInput)
    /\ detailsDecoded' = Append(detailsDecoded,
            PushReceiptErrorDetails_deserialize(detailsInput[Len(detailsDecoded) + 1]))
    /\ UNCHANGED <<detailsInput, callVars, tokenVars, builderVars>>

DetailPayloads ==
    [error : {None} \cup {Some(e) : e \in {"DeviceNotRegistered", "ProviderError",
                                           "Throttled"} \cup FieldlessCauses},
     expoPushToken : {None, Some("ExponentPushToken[a]"), Some("ExponentPushToken[a")},
     others : {"", "\"fault\":\"developer\""}]

InitDecode ==
    /\ detailsInput \in DetailPayloads \X DetailPayloads
    /\ detailsDecoded = <<>>
    /\ notifier = PushNotifier_new
    /\ CallsInit(<<>>, <<>>)
    /\ NoTokenInit
    /\ NoBuilderInit

NextDecode == DecodeDetails

SpecDecode == InitDecode /\ [][NextDecode]_vars

(***************************************************************************)
(* Building a PushMessage: new, then builder methods in any order, any     *)
(* number of times.  lastSet and everSet record the calls made.            *)
(***************************************************************************)
\* values of the enums Sound and Priority, by their serde names
Sounds == {"default"}

Priorities == {"default", "normal", "high"}

\* JSON values a caller may give as data
DataValues == {"null", "{\"k\":1}"}

TextValues == {"", "hi"}

\* u32 values: the least one and a ten-digit one
U32Values == {0, 2147483647}

Built(m, field) ==
    /\ built' = Some(m)
    /\ lastSet' = field
    /\ everSet' = IF field = "new" THEN {} ELSE everSet \cup {field}
    /\ UNCHANGED <<callVars, tokenVars, decodeVars>>

New ==
    /\ built = None
    /\ \E t \in {"ExpoPushToken[1]", "ExponentPushToken[2]"} :
           Built(PushMessage_new(t), "new")

SetData ==
    /\ built # None
    /\ \E d \in DataValues : Built(PushMessage_data(built[1], d), "data")

SetTitle ==
    /\ built # None
    /\ \E t \in {"hi"} : Built(PushMessage_title(built[1], t), "title")

SetBody ==
    /\ built # None
    /\ \E b \in TextValues : Built(PushMessage_body(built[1], b), "body")

SetSound ==
    /\ built # None
    /\ \E sd \in Sounds : Built(PushMessage_sound(built[1], sd), "sound")

SetTtl ==
    /\ built # None
    /\ \E t \in U32Values : Built(PushMessage_ttl(built[1], t), "ttl")

SetExpiration ==
    /\ built # None
    /\ \E e \in {0} : Built(PushMessage_expiration(built[1], e), "expiration")

SetPriority ==
    /\ built # None
    /\ \E pr \in Priorities : Built(PushMessage_priority(built[1], pr), "priority")

SetBadge ==
    /\ built # None
    /\ \E b \in {1} : Built(PushMessage_badge(built[1], b), "badge")

InitBuilder ==
    /\ NoBuilderInit
    /\ notifier = PushNotifier_new
    /\ CallsInit(<<>>, <<>>)
    /\ NoTokenInit
    /\ NoDecodeInit

NextBuilder ==
    \/ New
    \/ SetData
    \/ SetTitle
    \/ SetBody
    \/ SetSound
    \/ SetTtl
    \/ SetExpiration
    \/ SetPriority
    \/ SetBadge

SpecBuilder == InitBuilder /\ [][NextBuilder]_vars

(***************************************************************************)
(* Properties.                                                             *)
(***************************************************************************)
Ceil(n, k) == (n + k - 1) \div k

Min(a, b) == IF a < b THEN a ELSE b

IsMany(c) == kind[c] = "send_push_notifications"

IsOne(c) == kind[c] = "send_push_notification"

ChunkSize == notifier.pushes_per_request

\* an answer that makes the request fail in the code: no connection, a 4xx
\* or 5xx status, or a body that does not decode
Failing(a) == ~a.connected \/ (a.status >= 400 /\ a.status <= 599) \/ ~a.decodable

\* an answer that is a failure in the claim's words: no connection, a status
\* that is not a success (2xx) status, or a body that does not decode
FailingAsClaimed(a) == ~a.connected \/ a.status < 200 \/ a.status > 299 \/ ~a.decodable

\* the i-th chunk of ms for chunk size k, by position
ExpectedChunk(ms, k, i) == SubSeq(ms, (i - 1) * k + 1, Min(i * k, Len(ms)))

\* the data arrays of call c's answers, in the order received
AnswerData(c) == [i \in 1..Len(answers[c]) |-> answers[c][i].data]

\* the chunks call c has dispatched, in order
DispatchedChunks(c) == [i \in 1..Len(requests[c]) |-> requests[c][i].chunk]

IsPrefix(p, q) == Len(p) <= Len(q) /\ SubSeq(q, 1, Len(p)) = p

\* C1: a send_push_notifications call with chunk size k > 0 that returns Ok
\* returns exactly one ticket per message, the ticket at position i being the
\* server's ticket for message i, whatever data arrays the server returned.
C1_OneTicketPerMessage ==
    \A c \in Calls :
        (IsMany(c) /\ ChunkSize > 0 /\ result[c].tag = "Ok") =>
            /\ Len(result[c].tickets) = Len(messages[c])
            /\ \A i \in 1..Len(messages[c]) : result[c].tickets[i].for = messages[c][i].to

\* C2: a send_push_notifications call with chunk size k > 0 has at most one
\* request in flight, issues the request for chunk i+1 only after the answer
\* for chunk i was received, requests the chunks in chunk order, and when it
\* returns Ok it has issued exactly ceil(n/k) requests and its result is the
\* concatenation of the per-chunk data arrays in chunk order.
C2_SequentialChunkDispatch ==
    \A c \in Calls :
        (IsMany(c) /\ ChunkSize > 0) =>
            /\ Cardinality(InFlight(c)) <= 1
            /\ Len(requests[c]) = Len(answers[c]) + Cardinality(InFlight(c))
            /\ \A i \in 1..Len(requests[c]) :
                   requests[c][i].chunk = ExpectedChunk(messages[c], ChunkSize, i)
            /\ result[c].tag = "Ok" =>
                   /\ InFlight(c) = {}
                   /\ Len(requests[c]) = Ceil(Len(messages[c]), ChunkSize)
                   /\ result[c].tickets = Flatten(AnswerData(c))

C2_Witness ==
    \E c \in Calls :
        /\ IsMany(c) /\ ChunkSize = 2 /\ Len(messages[c]) = 3
        /\ result[c].tag = "Ok"
        /\ Len(requests[c]) = 2
        /\ Len(result[c].tickets) = 3

\* in a send_push_notifications call with chunk size k > 0 an answer that is
\* a failure (as the claim words it, or as the code decides it) is the last answer and ends the call with
\* Err right away, with no request after the failed one; an Err carries no
\* ticket, leaves nothing in flight and no chunk was requested twice
FailureState(asClaimed) ==
    LET IsFailure(a) == IF asClaimed THEN FailingAsClaimed(a) ELSE Failing(a)
    IN
    \A c \in Calls :
        (IsMany(c) /\ ChunkSize > 0) =>
            /\ \A i \in 1..Len(answers[c]) :
                   IsFailure(answers[c][i]) =>
                       /\ i = Len(answers[c])
                       /\ Len(requests[c]) = i
                       /\ result[c].tag = "Err"
                       /\ pc[c] = "done"
            /\ result[c].tag = "Err" =>
                   /\ result[c].tickets = <<>>
                   /\ result[c].ticket = None
                   /\ pc[c] = "done"
                   /\ InFlight(c) = {}
                   /\ \/ result[c].error = "io" /\ Len(requests[c]) = Len(answers[c])
                      \/ /\ Len(answers[c]) > 0
                         /\ IsFailure(answers[c][Len(answers[c])])
                   /\ \A i, j \in 1..Len(requests[c]) :
                          i # j => requests[c][i].chunk # requests[c][j].chunk

C3_FailureStep ==
    \A c \in Calls :
        result[c].tag = "Err" =>
            /\ requests'[c] = requests[c]
            /\ answers'[c] = answers[c]
            /\ result'[c] = result[c]
            /\ InFlight(c)' = InFlight(c)

RECURSIVE ManyAlone(_, _, _, _)
ManyAlone(rest, k, ans, acc) ==
    IF rest = <<>> THEN Ok(acc)
    ELSE IF ans = <<>> THEN Err("io")
    ELSE IF Failing(Head(ans))
         THEN Err(IF ~Head(ans).connected THEN "connect"
                  ELSE IF Head(ans).status >= 400 THEN "status" ELSE "decode")
    ELSE ManyAlone(SubSeq(rest, Min(k, Len(rest)) + 1, Len(rest)), k, Tail(ans),
                   acc \o Head(ans).data)

OneAlone(ans) ==
    IF ans = <<>> THEN Err("io")
    ELSE IF Failing(ans[1])
         THEN Err(IF ~ans[1].connected THEN "connect"
                  ELSE IF ans[1].status >= 400 THEN "status" ELSE "decode")
    ELSE IF ans[1].data = <<>> THEN Panic("called Option::unwrap() on a None value")
    ELSE OkOne(ans[1].data[Len(ans[1].data)])

ResultAlone(c) ==
    IF IsOne(c) THEN OneAlone(answers[c])
    ELSE IF ChunkSize = 0 THEN Panic("chunk size must be non-zero")
    ELSE ManyAlone(messages[c], ChunkSize, answers[c], <<>>)

\* every answer call c received holds one ticket per message of the chunk it
\* answers, made for that message, in order
HonestlyAnswered(c) ==
    \A i \in 1..Len(answers[c]) :
        /\ Len(answers[c][i].data) = Len(requests[c][i].chunk)
        /\ \A j \in 1..Len(requests[c][i].chunk) :
               answers[c][i].data[j].for = requests[c][i].chunk[j].to

\* C4 (state part): a call that has ended returned what it returns alone on
\* the answers it received, and its own tickets in its own order when the
\* server answered each of its requests honestly; a call holds at most its
\* own request in flight.
C4_NoInterferenceState ==
    \A c \in Calls :
        /\ pc[c] = "done" => result[c] = ResultAlone(c)
        /\ (pc[c] = "done" /\ IsMany(c) /\ result[c].tag = "Ok" /\ HonestlyAnswered(c)) =>
               /\ Len(result[c].tickets) = Len(messages[c])
               /\ \A i \in 1..Len(messages[c]) :
                      result[c].tickets[i].for = messages[c][i].to
        /\ \A w \in InFlight(c) : w.chunk = requests[c][Len(requests[c])].chunk

\* C4: two send calls running concurrently on one shared PushNotifier do not
\* interfere: under every interleaving each returns the result it returns when
\* run alone against the same answers, and no step changes the notifier.
C4_NoInterference == [](C4_NoInterferenceState) /\ [][notifier' = notifier]_vars

C4_Witness ==
    /\ DOMAIN pc = {1, 2}
    /\ IsMany(1) /\ IsMany(2)
    /\ messages[1] # messages[2]
    /\ Len(messages[1]) = 2 /\ Len(messages[2]) = 2
    /\ ChunkSize = 1
    /\ Len(requests[1]) = 1 /\ Len(answers[1]) = 0
    /\ result[2].tag = "Ok" /\ Len(result[2].tickets) = 2
    /\ HonestlyAnswered(2)

\* C5: the chunks send_push_notifications dispatches for chunk size k > 0 are
\* a splitting of the input in order: what was dispatched so far is a prefix
\* of the input, every chunk has between 1 and k messages, a chunk shorter
\* than k ends the input, and a call that returns Ok dispatched ceil(n/k)
\* chunks whose concatenation is the input.
C5_Chunking ==
    \A c \in Calls :
        (IsMany(c) /\ ChunkSize > 0) =>
            LET chunks == DispatchedChunks(c)
            IN /\ IsPrefix(Flatten(chunks), messages[c])
               /\ \A i \in 1..Len(chunks) :
                      /\ Len(chunks[i]) >= 1
                      /\ Len(chunks[i]) <= ChunkSize
                      /\ i < Len(chunks) => Len(chunks[i]) = ChunkSize
                      /\ Len(chunks[i]) < ChunkSize =>
                             Flatten(SubSeq(chunks, 1, i)) = messages[c]
               /\ result[c].tag = "Ok" =>
                      /\ Len(chunks) = Ceil(Len(messages[c]), ChunkSize)
                      /\ Flatten(chunks) = messages[c]

C5_Witness ==
    \E c \in Calls :
        /\ IsMany(c) /\ ChunkSize = 2 /\ Len(messages[c]) = 3
        /\ result[c].tag = "Ok"
        /\ Len(DispatchedChunks(c)) = 2
        /\ Len(DispatchedChunks(c)[1]) = 2
        /\ Len(DispatchedChunks(c)[2]) = 1

\* C6: for every request issued, the body was compressed or not by the policy
\* applied to the byte length of the uncompressed serialized chunk: under the
\* default policy not for 1024 bytes or fewer and always for 1025 bytes or
\* more, under Always always, under Never never; and compression fails only
\* where the policy selected it.
C6_CompressionDecision ==
    \A c \in Calls :
        /\ \A i \in 1..Len(requests[c]) :
               LET size == Len(to_string(requests[c][i].chunk))
                   gz == requests[c][i].request.body.gzip
               IN /\ notifier.gzip_policy = GzipPolicy_default =>
                         /\ size <= 1024 => ~gz
                         /\ size >= 1025 => gz
                  /\ notifier.gzip_policy = "Always" => gz
                  /\ notifier.gzip_policy = "Never" => ~gz
        /\ (result[c].tag = "Err" /\ result[c].error = "io") =>
               /\ notifier.gzip_policy # "Never"
               /\ notifier.gzip_policy = GzipPolicy_default =>
                      \E m \in {messages[c][i] : i \in 1..Len(messages[c])} :
                          m.body # None

C6_Witness ==
    \E c \in Calls :
        /\ notifier.gzip_policy = GzipPolicy_default
        /\ Len(requests[c]) = 2
        /\ Len(to_string(requests[c][1].chunk)) = 1024
        /\ ~requests[c][1].request.body.gzip
        /\ Len(to_string(requests[c][2].chunk)) < 1024

\* a string prefix + s + "]" for one of the two prefixes and some s
WellFormedToken(t) ==
    \E p \in {"ExponentPushToken[", "ExpoPushToken["} :
        \E n \in 0..Len(t) :
            /\ Len(t) = Len(p) + n + 1
            /\ t = p \o SubSeq(t, Len(p) + 1, Len(p) + n) \o "]"

\* C7: parsing a push token succeeds exactly for the strings prefix + s + "]"
\* with prefix "ExponentPushToken[" or "ExpoPushToken[" and any s; the token
\* holds the input unchanged and the error of a rejection carries the input.
C7_TokenParsing ==
    tokenParsed # None =>
        LET r == tokenParsed[1]
        IN /\ r.ok <=> WellFormedToken(tokenInput)
           /\ r.ok => r.token = tokenInput
           /\ ~r.ok => ends_with(r.err, tokenInput) /\ Len(r.err) >= Len(tokenInput)
           /\ (~r.ok /\ r.by = "try_from") => r.err = tokenInput

C7_Witness ==
    /\ tokenParsed # None
    /\ tokenInput = "ExpoPushToken[]"
    /\ tokenParsed[1].ok
    /\ tokenParsed[1].token = "ExpoPushToken[]"

\* C8: send_push_notification(m) and send_push_notifications([m]) that
\* received the same answers issued the same single request, failed or
\* succeeded together, and on success the ticket of the first is the one
\* element of the second.
C8_SendOneIsSendManyOfOne ==
    \A c1, c2 \in Calls :
        (/\ IsOne(c1) /\ IsMany(c2)
         /\ messages[c2] = messages[c1]
         /\ pc[c1] = "done" /\ pc[c2] = "done"
         /\ answers[c1] = answers[c2]
         /\ Len(answers[c1]) = 1) =>
            /\ Len(requests[c1]) = 1 /\ Len(requests[c2]) = 1
            /\ requests[c1][1].chunk = requests[c2][1].chunk
            /\ requests[c1][1].request.url = requests[c2][1].request.url
            /\ requests[c1][1].request.headers = requests[c2][1].request.headers
            /\ result[c1].tag = "Err" <=> result[c2].tag = "Err"
            /\ result[c1].tag = "Ok" <=> result[c2].tag = "Ok"
            /\ result[c1].tag = "Ok" => result[c2].tickets = <<result[c1].ticket[1]>>

\* C9: send_push_notifications on a notifier with pushes_per_request = 0 ends
\* by reporting an error to the caller, without issuing a request.
C9_ZeroChunkSizeIsAnError ==
    \A c \in Calls :
        (IsMany(c) /\ ChunkSize = 0 /\ pc[c] # "called") =>
            /\ pc[c] = "done"
            /\ result[c].tag = "Err"
            /\ requests[c] = <<>>

\* C10: send_push_notifications on an empty message sequence issues no
\* request and returns Ok with an empty ticket list.
C10_EmptyInputIsNoOp ==
    \A c \in Calls :
        (IsMany(c) /\ messages[c] = <<>>) =>
            /\ requests[c] = <<>>
            /\ pc[c] = "done" => (result[c].tag = "Ok" /\ result[c].tickets = <<>>)

(***************************************************************************)
(* Statuses of the elements of a response.                                 *)
(***************************************************************************)
\* the statuses a ticket can have
KnownStatuses == {"ok", "error"}

\* the data array has an element whose status is not a ticket status
HasUnknownStatus(data) == \E i \in DOMAIN data : data[i].status \notin KnownStatuses

\* the data array has an element that reports a per-message failure
HasErrorStatus(data) == \E i \in DOMAIN data : data[i].status = "error"

\* the tickets a finished call handed to its caller
ReturnedTickets(c) ==
    IF result[c].tag # "Ok" THEN <<>>
    ELSE IF IsMany(c) THEN result[c].tickets
    ELSE <<result[c].ticket[1]>>

\* C11: a response whose data array holds an element with a status other
\* than "ok" or "error" makes the send fail with a decode error; such an
\* element is never returned as a ticket.
C11_UnknownStatusIsDecodeError ==
    \A c \in Calls :
        /\ \A i \in DOMAIN ReturnedTickets(c) :
               ReturnedTickets(c)[i].status \in KnownStatuses
        /\ (/\ pc[c] = "done"
            /\ \E i \in DOMAIN answers[c] :
                   /\ \A j \in 1..(i - 1) : ~Failing(answers[c][j])
                   /\ answers[c][i].connected
                   /\ ~(answers[c][i].status >= 400 /\ answers[c][i].status <= 599)
                   /\ answers[c][i].decodable
                   /\ HasUnknownStatus(answers[c][i].data))
              => (result[c].tag = "Err" /\ result[c].error = "decode")

\* every chunk of the call was sent and answered, and no answer was a failure
AllRequestsSucceeded(c) ==
    /\ pc[c] = "done"
    /\ ChunkSize > 0
    /\ Len(requests[c]) = Ceil(Len(messages[c]), ChunkSize)
    /\ Len(answers[c]) = Len(requests[c])
    /\ \A i \in DOMAIN answers[c] : ~Failing(answers[c][i])

\* C13: when every request of a send succeeds and the data arrays hold
\* elements with status "error", in any positions, send_push_notifications
\* returns Ok and every element of every data array, the error ones
\* included, is a ticket at its own position.
C13_MessageErrorIsNotCallError ==
    \A c \in Calls :
        (/\ IsMany(c)
         /\ AllRequestsSucceeded(c)
         /\ \E i \in DOMAIN answers[c] : HasErrorStatus(answers[c][i].data))
          => /\ result[c].tag = "Ok"
             /\ Len(result[c].tickets) = Len(Flatten(AnswerData(c)))
             /\ \A i \in DOMAIN answers[c] : \A j \in DOMAIN answers[c][i].data :
                    LET at == Len(Flatten(SubSeq(AnswerData(c), 1, i - 1))) + j
                    IN result[c].tickets[at] = answers[c][i].data[j]

\* a send of two chunks whose tickets are all error tickets, and a send
\* where an error ticket stands between ok tickets
C13_Witness ==
    \E c \in Calls :
        /\ IsMany(c)
        /\ AllRequestsSucceeded(c)
        /\ Len(answers[c]) >= 2
        /\ result[c].tag = "Ok"
        /\ Len(result[c].tickets) >= 2
        /\ result[c].tickets[1].status = "error"
        /\ result[c].tickets[Len(result[c].tickets)].status = "error"
        /\ \A i \in DOMAIN result[c].tickets :
               result[c].tickets[i].status = "error" \/ i = 2

(***************************************************************************)
(* Error details.                                                          *)
(***************************************************************************)
\* the payload has the shape of one of the four known causes
MatchesKnownCause(p) ==
    /\ p.error # None
    /\ \/ p.error[1] \in FieldlessCauses
       \/ /\ p.error[1] = "DeviceNotRegistered"
          /\ p.expoPushToken # None
          /\ WellFormedToken(p.expoPushToken[1])

\* C12: decoding the details of an error ticket or receipt never fails; a
\* payload that matches no known cause (unrecognized cause name, no cause
\* member, DeviceNotRegistered with a malformed token) decodes to the
\* unknown fallback, and two different such payloads decode to different
\* values.
C12_DetailsDecodingNeverFails ==
    /\ \A i \in DOMAIN detailsDecoded :
           /\ detailsDecoded[i].ok
           /\ ~MatchesKnownCause(detailsInput[i]) =>
                  detailsDecoded[i].variant = "UnknownError"
    /\ \A i, j \in DOMAIN detailsDecoded :
           (/\ ~MatchesKnownCause(detailsInput[i])
            /\ ~MatchesKnownCause(detailsInput[j])
            /\ detailsInput[i] # detailsInput[j])
             => detailsDecoded[i] # detailsDecoded[j]

(***************************************************************************)
(* The body on the wire.                                                   *)
(***************************************************************************)
GzipHeader == <<"Content-Encoding", "gzip">>

\* what a server reading the request by its Content-Encoding header gets
DecodedBody(rq) ==
    IF GzipHeader \in rq.headers THEN [gzip |-> TRUE, bytes |-> rq.body.bytes]
    ELSE [gzip |-> FALSE, bytes |-> rq.body.bytes]

\* C14: the body on the wire, decoded by the request's own Content-Encoding
\* header, is the serialized chunk: the header is there exactly when the
\* policy selected compression, the body then gunzips to the whole
\* serialized chunk, otherwise the body is the serialized chunk itself; a
\* failed gzip encoding issues no request.
C14_WireBodyIsSerializedChunk ==
    \A c \in Calls :
        /\ \A i \in DOMAIN requests[c] :
               LET rq == requests[c][i].request
                   body == to_string(requests[c][i].chunk)
               IN /\ (GzipHeader \in rq.headers)
                        <=> should_compress(notifier.gzip_policy, body)
                  /\ DecodedBody(rq).gzip = rq.body.gzip
                  /\ DecodedBody(rq).bytes = body
        /\ (result[c].tag = "Err" /\ result[c].error = "io") =>
               /\ InFlight(c) = {}
               /\ Len(requests[c]) = Len(answers[c])

(***************************************************************************)
(* The builder and the wire form of a message.                             *)
(***************************************************************************)
OptionalFields ==
    {"data", "title", "body", "sound", "ttl", "expiration", "priority", "badge"}

\* the keys of the serialized form of m
SerializedKeys(m) == {MessageFields(m)[i][1] : i \in DOMAIN MessageFields(m)}

\* the keys of the serialized message are to and the fields that were set,
\* each once, and with only body set the text has just the two of them
C15_SerializedKeys ==
    built # None =>
        /\ SerializedKeys(built[1]) = {"to"} \cup everSet
        /\ Len(MessageFields(built[1])) = Cardinality(SerializedKeys(built[1]))
        /\ \A f \in OptionalFields : (built[1][f] # None) <=> (f \in everSet)
        /\ everSet = {"body"} =>
               SerializeMessage(built[1]) =
                   "{\"to\":\"" \o built[1].to \o "\",\"body\":\""
                       \o built[1].body[1] \o "\"}"

\* a builder call sets its own field and leaves every other field as it was
C15_SetterFrame ==
    built # None =>
        /\ lastSet' \in OptionalFields
        /\ built'[1][lastSet'] # None
        /\ \A f \in (OptionalFields \cup {"to"}) \ {lastSet'} :
               built'[1][f] = built[1][f]

\* C15: for a PushMessage built by new and any sequence of builder calls,
\* the keys of its serialized form are exactly to plus the optional fields
\* that were set (an unset field does not appear, not even as null), each
\* builder call changes only its own field, and a message with only to and
\* body set serializes with exactly those two keys.
C15_BuilderAndWireForm == [](C15_SerializedKeys) /\ [][C15_SetterFrame]_vars

\* body was set, then ttl, and nothing else; and a message with only body
C15_Witness ==
    /\ built # None
    /\ everSet = {"body", "ttl"}
    /\ lastSet = "ttl"
    /\ built[1].body = Some("hi")
    /\ SerializeMessage(built[1]) =
           "{\"to\":\"ExpoPushToken[1]\",\"body\":\"hi\",\"ttl\":2147483647}"

====
